---- MODULE Spec2Model ----
(***************************************************************************)
(* Model of the long-term memory vector store of src/bigquery/index.ts:    *)
(* the lazy initializer (initializeVectorStore), the append-only writer    *)
(* (addOrUpdateMemoryItems) and the searcher with its de-duplication of    *)
(* superseded versions (searchLongTermMemory).                             *)
(*                                                                         *)
(* Every async function is cut at its awaits: one action runs the code     *)
(* from one suspension point to the next, and the actions of different     *)
(* invocations interleave freely, as the event loop allows.                *)
(***************************************************************************)
EXTENDS Integers, Sequences, FiniteSets, TLC

\* ---------------------------------------------------------------- bounds
NumProcs == 2        \* concurrent callers of the module
MaxCalls == 3        \* invocations of the exported functions in one run
MaxTime == 2         \* last clock value (clock starts at 1)
MaxItems == 1        \* longest items argument of a write
MaxTopN == 2         \* largest topN argument of a search
MaxInitRows == 1     \* rows of a table that exists before the process starts
MaxRows == 2         \* physical rows the table can hold in the model
MaxWords == 3        \* words of the sql argument of a query tool call

Procs == 1..NumProcs
Ids == {"a", "b"}
DummyId == "dummy_id"
Null == 0            \* null handle (db, table)
NoTs == 0            \* a row without insert_timestamp
NoScore == -1        \* a result without score
NoFilter == "none"   \* filter argument left out
Times == 1..MaxTime
Scores == {NoScore, -2, 1}   \* no score, a negative score, a positive score
Filters == {NoFilter} \cup Ids
NoEmbedding == -1    \* getEmbeddings() returned no vector
EmbeddingResults == {NoEmbedding, 0, 1}

VARIABLES
    db, table, isInitialized,        \* module state, lines 208-210
    tableExists, hasInsertCol, rows, \* the LanceDB directory: the table, its schema, its rows
    clock,                           \* the last value new Date() returned
    pc,                              \* the await each caller is suspended at
    op, items, queryEmbedding,       \* the running invocation and its arguments
    topN, filter,                    \* limit and where clause of the query in flight, 348-351
    timestampedData,                 \* local of addOrUpdateMemoryItems, line 296
    sampleEmbedding,                 \* local of initializeVectorStore, line 232
    returned,                        \* the return an exported function has just made, if any
    results, dedupedResults,         \* locals of the search that has just run lines 357-398
    calls, createAttempts, initOk, initFailed, late,  \* history
    handler,                         \* the CallTool handler: idle, or awaiting bigquery.query
    sql,                             \* the text the handler passes to bigquery.query, 145-155
    response                         \* the outcome of the tool call that has just ended, if any

modvars == <<db, table, isInitialized>>
storevars == <<tableExists, hasInsertCol, rows>>
argvars == <<op, items, queryEmbedding, topN, filter, timestampedData>>
retvars == <<returned, results, dedupedResults>>
histvars == <<calls, createAttempts, initOk, initFailed>>
procvars == <<argvars, late, sampleEmbedding>>
toolvars == <<handler, sql, response>>
vars == <<modvars, storevars, clock, pc, procvars, retvars, histvars, toolvars>>

\* ---------------------------------------------------------------- helpers
Min(x, y) == IF x <= y THEN x ELSE y

SeqsUpTo(S, n) == UNION {[1..k -> S] : k \in 0..n}

\* a physical row: its id and its insert_timestamp (NoTs on a legacy row)
Row(id, its) == [id |-> id, its |-> its]

\* the placeholder record of lines 239-245: it has no insert_timestamp
dummyData == <<Row(DummyId, NoTs)>>

\* the fields of the placeholder record, from which createTable infers
\* the schema (lines 239-248)
DummyColumns == {"id", "text", "vector", "metadata_timestamp", "metadata_stage"}

\* the fields of an item the caller passes (LongTermMemoryData, 195-202)
ItemColumns == {"id", "text", "vector", "metadata_timestamp", "metadata_stage"}

\* the fields of a record of timestampedData (lines 284-300)
TimestampedColumns == ItemColumns \cup {"insert_timestamp"}

\* ------------------------------------------------ de-duplication (361-392)
\* latestByIdMap is a JS Map: a sequence of entries in insertion order,
\* one entry per key; set() on a present key keeps the key's position.
MapHas(m, id) == \E i \in 1..Len(m) : m[i].id = id

MapGet(m, id) == m[CHOOSE i \in 1..Len(m) : m[i].id = id]

MapSet(m, item) ==
    IF MapHas(m, item.id)
    THEN [i \in 1..Len(m) |-> IF m[i].id = item.id THEN item ELSE m[i]]
    ELSE Append(m, item)

\* the loop body without the comparison of line 376: the first versioned
\* row of an id is kept
DedupStepKeepsFirst(m, item) ==
    IF ~MapHas(m, item.id) \/ (item.its # NoTs /\ MapGet(m, item.id).its = NoTs)
    THEN MapSet(m, item)
    ELSE m

\* the loop body without the has() test of line 383: a legacy row is
\* always stored
DedupStepLegacyOverrides(m, item) ==
    IF item.its # NoTs
    THEN IF ~MapHas(m, item.id) \/ MapGet(m, item.id).its = NoTs
         THEN MapSet(m, item)
         ELSE IF item.its > MapGet(m, item.id).its
              THEN MapSet(m, item)
              ELSE m
    ELSE MapSet(m, item)

\* the loop body with a legacy row replacing a legacy row: the last legacy
\* row of an id is kept
DedupStepKeepsLastLegacy(m, item) ==
    IF item.its # NoTs
    THEN IF ~MapHas(m, item.id) \/ MapGet(m, item.id).its = NoTs
         THEN MapSet(m, item)
         ELSE IF item.its > MapGet(m, item.id).its
              THEN MapSet(m, item)
              ELSE m
    ELSE IF ~MapHas(m, item.id) \/ MapGet(m, item.id).its = NoTs
         THEN MapSet(m, item)
         ELSE m

\* one iteration of the loop of lines 363-387
DedupStep(m, item) ==
    IF item.its # NoTs
    THEN IF ~MapHas(m, item.id) \/ MapGet(m, item.id).its = NoTs
         THEN MapSet(m, item)
         ELSE IF item.its > MapGet(m, item.id).its
              THEN MapSet(m, item)
              ELSE m
    ELSE IF ~MapHas(m, item.id)
         THEN MapSet(m, item)
         ELSE m

RECURSIVE DedupLoop(_, _, _)
DedupLoop(m, res, i) ==
    IF i > Len(res) THEN m ELSE DedupLoop(DedupStep(m, res[i]), res, i + 1)

latestByIdMap(res) == DedupLoop(<<>>, res, 1)

\* a missing score ordered below every score instead of counting as zero
ScoreOrLowest(r) == IF r.score = NoScore THEN -3 ELSE r.score

\* (b.score || 0) - (a.score || 0), line 391
ScoreOrZero(r) == IF r.score = NoScore THEN 0 ELSE r.score

Compare(a, b) == ScoreOrZero(b) - ScoreOrZero(a)

\* Array.prototype.sort is stable: an element goes after every element
\* that does not have to come after it
SortInsert(s, x) ==
    LET k == Cardinality({i \in 1..Len(s) :
                 \A j \in 1..i : Compare(s[j], x) <= 0})
    IN SubSeq(s, 1, k) \o <<x>> \o SubSeq(s, k + 1, Len(s))

RECURSIVE SortLoop(_, _, _)
SortLoop(acc, s, i) ==
    IF i > Len(s) THEN acc ELSE SortLoop(SortInsert(acc, s[i]), s, i + 1)

SortByScore(s) == SortLoop(<<>>, s, 1)

Slice(s, n) == SubSeq(s, 1, Min(n, Len(s)))

\* line 398 returning the raw results instead of the de-duplicated ones
DedupReturnsRaw(res, n) == Slice(SortByScore(res), n)

\* lines 361-392 as a whole
Dedup(res, n) == Slice(SortByScore(latestByIdMap(res)), n)

\* ------------------------------------------------------------ the engine
\* rows a query with this filter can see
Matching(f) == {i \in 1..Len(rows) : f = NoFilter \/ rows[i].id = f}

\* table.search(v).limit(n).where(f).toArray(): the n nearest matching
\* rows (all of them when there are fewer), each physical row at most
\* once, in the engine's order, with the engine's scores
Windows(f, n) ==
    LET k == Min(n, Cardinality(Matching(f)))
    IN {[j \in 1..k |-> [id |-> rows[w[j][1]].id, its |-> rows[w[j][1]].its,
                         idx |-> w[j][1], score |-> w[j][2]]] :
          w \in {x \in [1..k -> Matching(f) \X Scores] :
                   \A i, j \in 1..k : i # j => x[i][1] # x[j][1]}}

\* ------------------------------------------------------------------ Init
\* The process starts with the module state of lines 208-210.  The table
\* may be left by an earlier run: with the insert_timestamp column (rows
\* written before that column existed hold no value in it) or without.
RowsUpTo(n) == SeqsUpTo([id : Ids, its : {NoTs} \cup Times], n)

Legacy(rs) == \A i \in 1..Len(rs) : rs[i].its = NoTs

NoReturn == [op |-> "none", how |-> "none", at |-> "idle",
             items |-> <<>>, queryEmbedding |-> "empty", topN |-> 0,
             sampleEmbedding |-> NoEmbedding]

\* no tool call has just ended
NoResponse == "none"

\* a step that is not a return: the previous return is history (the
\* vector store has no access to the query tool's handler)
Quiet ==
    /\ returned' = NoReturn /\ results' = <<>> /\ dedupedResults' = <<>>
    /\ UNCHANGED toolvars

Idle ==
    /\ pc = [p \in Procs |-> "idle"]
    /\ op = [p \in Procs |-> "none"]
    /\ items = [p \in Procs |-> <<>>]
    /\ queryEmbedding = [p \in Procs |-> "empty"]
    /\ topN = [p \in Procs |-> 0]
    /\ filter = [p \in Procs |-> NoFilter]
    /\ timestampedData = [p \in Procs |-> <<>>]
    /\ late = [p \in Procs |-> FALSE]
    /\ sampleEmbedding = [p \in Procs |-> NoEmbedding]
    /\ returned = NoReturn
    /\ results = <<>>
    /\ dedupedResults = <<>>
    /\ handler = "idle"
    /\ sql = <<>>
    /\ response = NoResponse

Init ==
    /\ db = Null /\ table = Null /\ isInitialized = FALSE
    /\ tableExists \in BOOLEAN
    /\ hasInsertCol \in BOOLEAN
    /\ rows \in RowsUpTo(MaxInitRows)
    /\ \A i \in 1..Len(rows) : rows[i].its <= 1
    /\ tableExists = FALSE => (rows = <<>> /\ hasInsertCol = FALSE)
    /\ hasInsertCol = FALSE => Legacy(rows)
    /\ clock = 1
    /\ Idle
    /\ calls = 0 /\ createAttempts = 0
    /\ initOk = FALSE /\ initFailed = FALSE

\* an invocation of an exported function ends: its arguments and locals
\* go out of scope, the caller sees how it ended (how = "threw": with an
\* error; anything else: normally, on the path of that name); e is the
\* value the initializer's sampleEmbedding held, if the initializer ran
Leave(p, how, e) ==
    /\ pc' = [pc EXCEPT ![p] = "idle"]
    /\ returned' = [op |-> op[p], how |-> how, at |-> pc[p], items |-> items[p],
                    queryEmbedding |-> queryEmbedding[p], topN |-> topN[p],
                    sampleEmbedding |-> e]
    /\ op' = [op EXCEPT ![p] = "none"]
    /\ items' = [items EXCEPT ![p] = <<>>]
    /\ queryEmbedding' = [queryEmbedding EXCEPT ![p] = "empty"]
    /\ topN' = [topN EXCEPT ![p] = 0]
    /\ filter' = [filter EXCEPT ![p] = NoFilter]
    /\ timestampedData' = [timestampedData EXCEPT ![p] = <<>>]
    /\ late' = [late EXCEPT ![p] = FALSE]
    /\ sampleEmbedding' = [sampleEmbedding EXCEPT ![p] = NoEmbedding]
    /\ UNCHANGED toolvars

Return(p, how) == Leave(p, how, sampleEmbedding[p])

\* a return without a value (the writer; a search that throws)
ReturnVoid(p, how) ==
    /\ Return(p, how)
    /\ results' = <<>>
    /\ dedupedResults' = <<>>

\* the invocation goes on to its next await
Goto(p, l) ==
    /\ pc' = [pc EXCEPT ![p] = l]
    /\ Quiet
    /\ UNCHANGED argvars

\* ------------------------------------------- initializeVectorStore, 215-264
\* line 216 testing a failure latch as well: after a failed initialization
\* the initializer returns at once
EnterInitLatched(p) ==
    pc' = [pc EXCEPT ![p] = IF isInitialized \/ initFailed THEN "initReturn" ELSE "connect"]

\* lines 216-221, run synchronously by the caller: return at once when
\* initialized, else call connect() and suspend
EnterInit(p) ==
    pc' = [pc EXCEPT ![p] = IF isInitialized THEN "initReturn" ELSE "connect"]

\* the catch block without lines 260-261: the handles are kept
CatchInitKeepsHandles(p, e) ==
    /\ isInitialized' = FALSE
    /\ UNCHANGED <<db, table>>
    /\ Leave(p, "threw", e)
    /\ results' = <<>>
    /\ dedupedResults' = <<>>
    /\ initFailed' = TRUE

\* the catch block, lines 256-263, entered with sampleEmbedding = e; the
\* rejection reaches the caller of the exported function, whose await is
\* outside its own try
CatchInit(p, e) ==
    /\ isInitialized' = FALSE
    /\ db' = Null
    /\ table' = Null
    /\ Leave(p, "threw", e)
    /\ results' = <<>>
    /\ dedupedResults' = <<>>
    /\ initFailed' = TRUE

\* line 254 and the return to the awaiting caller
InitDone(p) ==
    /\ isInitialized' = TRUE
    /\ Goto(p, "initReturn")
    /\ late' = [late EXCEPT ![p] = FALSE]
    /\ sampleEmbedding' = [sampleEmbedding EXCEPT ![p] = NoEmbedding]
    /\ initOk' = TRUE

\* the exported functions are entered: lines 271-272 and 332-337
CallWrite(p) ==
    /\ pc[p] = "idle" /\ calls < MaxCalls
    /\ \E its \in SeqsUpTo(Ids, MaxItems) :
          items' = [items EXCEPT ![p] = its]
    /\ op' = [op EXCEPT ![p] = "write"]
    /\ EnterInit(p)
    /\ calls' = calls + 1
    /\ late' = [late EXCEPT ![p] = initOk]
    /\ Quiet
    /\ UNCHANGED <<modvars, storevars, clock, queryEmbedding, topN, filter, timestampedData,
                   sampleEmbedding, createAttempts, initOk, initFailed>>

CallSearch(p) ==
    /\ pc[p] = "idle" /\ calls < MaxCalls
    /\ \E q \in {"empty", "vector"} :
          queryEmbedding' = [queryEmbedding EXCEPT ![p] = q]
    /\ op' = [op EXCEPT ![p] = "search"]
    /\ EnterInit(p)
    /\ calls' = calls + 1
    /\ late' = [late EXCEPT ![p] = initOk]
    /\ Quiet
    /\ UNCHANGED <<modvars, storevars, clock, items, topN, filter, timestampedData,
                   sampleEmbedding, createAttempts, initOk, initFailed>>

\* line 221 resumes with the connection; line 223 calls db.tableNames()
ConnectOk(p) ==
    /\ pc[p] = "connect"
    /\ db' = p
    /\ Goto(p, "tableNames")
    /\ UNCHANGED <<table, isInitialized, storevars, clock, late, sampleEmbedding, histvars>>

\* line 223 resumes with the names; lines 224-232 call db.openTable() or
\* getEmbeddings().  db is the module variable: another invocation's
\* catch block may have cleared it, and db.openTable then throws
TableNamesOk(p) ==
    /\ pc[p] = "tableNames"
    /\ IF tableExists
       THEN IF db = Null
            THEN CatchInit(p, sampleEmbedding[p])
            ELSE Goto(p, "openTable")
                 /\ UNCHANGED <<modvars, late, sampleEmbedding, initFailed>>
       ELSE Goto(p, "getEmbeddings")
            /\ UNCHANGED <<modvars, late, sampleEmbedding, initFailed>>
    /\ UNCHANGED <<storevars, clock, calls, createAttempts, initOk>>

\* line 226 resumes with the table handle; line 254
OpenTableOk(p) ==
    /\ pc[p] = "openTable"
    /\ table' = p
    /\ InitDone(p)
    /\ UNCHANGED <<db, storevars, clock, calls, createAttempts, initFailed>>

\* lines 232-248 without the dimension check of lines 234-236
GetEmbeddingsOkNoDimensionCheck(p) ==
    /\ pc[p] = "getEmbeddings"
    /\ \E e \in EmbeddingResults :
          IF db = Null
          THEN CatchInit(p, e) /\ UNCHANGED createAttempts
          ELSE /\ Goto(p, "createTable")
               /\ sampleEmbedding' = [sampleEmbedding EXCEPT ![p] = e]
               /\ createAttempts' = createAttempts + 1
               /\ UNCHANGED <<modvars, late, initFailed>>
    /\ UNCHANGED <<storevars, clock, calls, initOk>>

\* line 232 resumes with the sample embedding e: absent, or a vector of
\* length e.  Lines 233-248: the dimension check, then db.createTable()
GetEmbeddingsOk(p) ==
    /\ pc[p] = "getEmbeddings"
    /\ \E e \in EmbeddingResults :
          IF e = NoEmbedding \/ e = 0 \/ db = Null
          THEN CatchInit(p, e) /\ UNCHANGED createAttempts
          ELSE /\ Goto(p, "createTable")
               /\ sampleEmbedding' = [sampleEmbedding EXCEPT ![p] = e]
               /\ createAttempts' = createAttempts + 1
               /\ UNCHANGED <<modvars, late, initFailed>>
    /\ UNCHANGED <<storevars, clock, calls, initOk>>

\* line 248 followed by the delete of lines 250-252, which the code has
\* commented out
CreateTableOkDeletesDummy(p) ==
    /\ pc[p] = "createTable"
    /\ ~tableExists
    /\ tableExists' = TRUE
    /\ hasInsertCol' = ("insert_timestamp" \in DummyColumns)
    /\ rows' = <<>>
    /\ table' = p
    /\ InitDone(p)
    /\ UNCHANGED <<db, clock, calls, createAttempts, initFailed>>

\* line 248 resumes with the new table (createTable in its default mode
\* refuses a name that is taken); line 254
CreateTableOk(p) ==
    /\ pc[p] = "createTable"
    /\ ~tableExists
    /\ tableExists' = TRUE
    /\ hasInsertCol' = ("insert_timestamp" \in DummyColumns)
    /\ rows' = dummyData
    /\ table' = p
    /\ InitDone(p)
    /\ UNCHANGED <<db, clock, calls, createAttempts, initFailed>>

\* any of the awaited calls of lines 221-248 rejects
InitAwaits == {"connect", "tableNames", "openTable", "getEmbeddings", "createTable"}

InitStepFails(p) ==
    /\ pc[p] \in InitAwaits
    /\ CatchInit(p, sampleEmbedding[p])
    /\ UNCHANGED <<storevars, clock, calls, createAttempts, initOk>>

\* ------------------------------------------ addOrUpdateMemoryItems, 271-312
\* the columns of the table: those of the placeholder record, and
\* insert_timestamp where the table has that column
SchemaColumns ==
    DummyColumns \cup (IF hasInsertCol THEN {"insert_timestamp"} ELSE {})

\* what the table keeps of an appended record: a table without the
\* insert_timestamp column has nowhere to store that field
Stored(r) == IF hasInsertCol THEN r ELSE Row(r.id, NoTs)

\* the merge insert (upsert by id) that the function's header announces
TableMergeInsert(old, data) ==
    SelectSeq(old, LAMBDA r : \A i \in 1..Len(data) : data[i].id # r.id)
        \o [i \in 1..Len(data) |-> Stored(data[i])]

\* table.add(data), line 303, when the engine accepts it
TableAdd(old, data) == old \o [i \in 1..Len(data) |-> Stored(data[i])]

\* lines 273-303 without the test of line 277
WriteAfterInitNoEmptyTest(p) ==
    /\ pc[p] = "initReturn" /\ op[p] = "write"
    /\ IF table = Null
       THEN ReturnVoid(p, "noTable") /\ UNCHANGED clock
       ELSE /\ \E now \in clock..MaxTime :
                  /\ clock' = now
                  /\ timestampedData' = [timestampedData EXCEPT ![p] =
                         [i \in 1..Len(items[p]) |-> Row(items[p][i], now)]]
            /\ pc' = [pc EXCEPT ![p] = "add"]
            /\ Quiet
            /\ UNCHANGED <<op, items, queryEmbedding, topN, filter, late, sampleEmbedding>>
    /\ UNCHANGED <<modvars, storevars, histvars>>

\* lines 273-303: the caller resumes after the initializer returned; time
\* has passed since the clock was last read
WriteAfterInit(p) ==
    /\ pc[p] = "initReturn" /\ op[p] = "write"
    /\ IF table = Null
       THEN ReturnVoid(p, "noTable") /\ UNCHANGED clock
       ELSE IF Len(items[p]) = 0
       THEN ReturnVoid(p, "noItems") /\ UNCHANGED clock
       ELSE /\ \E now \in clock..MaxTime :
                  /\ clock' = now
                  /\ timestampedData' = [timestampedData EXCEPT ![p] =
                         [i \in 1..Len(items[p]) |-> Row(items[p][i], now)]]
            /\ pc' = [pc EXCEPT ![p] = "add"]
            /\ Quiet
            /\ UNCHANGED <<op, items, queryEmbedding, topN, filter, late, sampleEmbedding>>
    /\ UNCHANGED <<modvars, storevars, histvars>>

\* line 303 resumes, line 304
AddOk(p) ==
    /\ pc[p] = "add"
    /\ Len(rows) + Len(timestampedData[p]) <= MaxRows
    /\ rows' = TableAdd(rows, timestampedData[p])
    /\ ReturnVoid(p, "added")
    /\ UNCHANGED <<modvars, tableExists, hasInsertCol, clock, histvars>>

\* the catch block of lines 309-311 re-throwing, as the initializer's does
AddFailsRethrows(p) ==
    /\ pc[p] = "add"
    /\ ReturnVoid(p, "threw")
    /\ UNCHANGED <<modvars, storevars, clock, histvars>>

\* line 303 rejects: the catch block of lines 309-311
AddFails(p) ==
    /\ pc[p] = "add"
    /\ ReturnVoid(p, "addError")
    /\ UNCHANGED <<modvars, storevars, clock, histvars>>

\* -------------------------------------------- searchLongTermMemory, 332-403
\* lines 338-357 without the test of line 342
SearchAfterInitNoEmptyTest(p) ==
    /\ pc[p] = "initReturn" /\ op[p] = "search"
    /\ IF table = Null
       THEN ReturnVoid(p, "noTable")
       ELSE /\ \E n \in 1..MaxTopN, f \in Filters :
                  /\ topN' = [topN EXCEPT ![p] = n]
                  /\ filter' = [filter EXCEPT ![p] = f]
            /\ pc' = [pc EXCEPT ![p] = "toArray"]
            /\ Quiet
            /\ UNCHANGED <<op, items, queryEmbedding, timestampedData, late, sampleEmbedding>>
    /\ UNCHANGED <<modvars, storevars, clock, histvars>>

\* lines 338-357: the caller resumes after the initializer returned; topN
\* and filter are first read here, to build the query
SearchAfterInit(p) ==
    /\ pc[p] = "initReturn" /\ op[p] = "search"
    /\ IF table = Null
       THEN ReturnVoid(p, "noTable")
       ELSE IF queryEmbedding[p] = "empty"
       THEN ReturnVoid(p, "emptyQuery")
       ELSE /\ \E n \in 1..MaxTopN, f \in Filters :
                  /\ topN' = [topN EXCEPT ![p] = n]
                  /\ filter' = [filter EXCEPT ![p] = f]
            /\ pc' = [pc EXCEPT ![p] = "toArray"]
            /\ Quiet
            /\ UNCHANGED <<op, items, queryEmbedding, timestampedData, late, sampleEmbedding>>
    /\ UNCHANGED <<modvars, storevars, clock, histvars>>

\* line 357 resumes with the candidate rows; lines 361-398
ToArrayOk(p) ==
    /\ pc[p] = "toArray"
    /\ \E res \in Windows(filter[p], topN[p]) :
          /\ results' = res
          /\ dedupedResults' = Dedup(res, topN[p])
    /\ Return(p, "found")
    /\ UNCHANGED <<modvars, storevars, clock, histvars>>

\* the catch block of lines 399-402 resetting the module state, as the
\* initializer's does
ToArrayFailsResets(p) ==
    /\ pc[p] = "toArray"
    /\ isInitialized' = FALSE
    /\ db' = Null
    /\ table' = Null
    /\ ReturnVoid(p, "searchError")
    /\ UNCHANGED <<storevars, clock, histvars>>

\* line 357 rejects: the catch block of lines 399-402
ToArrayFails(p) ==
    /\ pc[p] = "toArray"
    /\ ReturnVoid(p, "searchError")
    /\ UNCHANGED <<modvars, storevars, clock, histvars>>

\* ------------------------------------------------------------------ Next
Next ==
    \/ \E p \in Procs : CallWrite(p)
    \/ \E p \in Procs : CallSearch(p)
    \/ \E p \in Procs : ConnectOk(p)
    \/ \E p \in Procs : TableNamesOk(p)
    \/ \E p \in Procs : OpenTableOk(p)
    \/ \E p \in Procs : GetEmbeddingsOk(p)
    \/ \E p \in Procs : CreateTableOk(p)
    \/ \E p \in Procs : InitStepFails(p)
    \/ \E p \in Procs : WriteAfterInit(p)
    \/ \E p \in Procs : AddOk(p)
    \/ \E p \in Procs : AddFails(p)
    \/ \E p \in Procs : SearchAfterInit(p)
    \/ \E p \in Procs : ToArrayOk(p)
    \/ \E p \in Procs : ToArrayFails(p)

Spec == Init /\ [][Next]_vars

\* ------------------------------------------------- the searcher on its own
\* A store that an earlier invocation initialized, holding any table that
\* earlier writes (of this run and of earlier ones) can have left, with one
\* invocation of the run still to come.
SearchInit ==
    /\ \E p \in Procs : db = p /\ table = p
    /\ isInitialized = TRUE
    /\ tableExists = TRUE
    /\ hasInsertCol \in BOOLEAN
    /\ rows \in RowsUpTo(MaxRows)
    /\ hasInsertCol = FALSE => Legacy(rows)
    /\ clock = MaxTime
    /\ Idle
    /\ calls = MaxCalls - 1 /\ createAttempts = 0
    /\ initOk = TRUE /\ initFailed = FALSE

SearchNext ==
    \/ \E p \in Procs : CallSearch(p)
    \/ \E p \in Procs : SearchAfterInit(p)
    \/ \E p \in Procs : ToArrayOk(p)
    \/ \E p \in Procs : ToArrayFails(p)

SearchSpec == SearchInit /\ [][SearchNext]_vars

\* -------------------------------------------------- one writer at a time
\* An initialized store whose table has the insert_timestamp column and
\* holds legacy rows only, used by callers that await each write before
\* they start the next one (searches overlap freely): every versioned row
\* of the table was appended by a write that had completed before the
\* next write started, and the table holds them in that order.
UpdateInit ==
    /\ \E p \in Procs : db = p /\ table = p
    /\ isInitialized = TRUE
    /\ tableExists = TRUE
    /\ hasInsertCol = TRUE
    /\ rows \in RowsUpTo(MaxInitRows)
    /\ Legacy(rows)
    /\ clock = 1
    /\ Idle
    /\ calls = 0 /\ createAttempts = 0
    /\ initOk = TRUE /\ initFailed = FALSE

AwaitedWrite(p) ==
    /\ \A q \in Procs : op[q] # "write"
    /\ CallWrite(p)

UpdateNext ==
    \/ \E p \in Procs : AwaitedWrite(p)
    \/ \E p \in Procs : WriteAfterInit(p)
    \/ \E p \in Procs : AddOk(p)
    \/ \E p \in Procs : AddFails(p)
    \/ \E p \in Procs : CallSearch(p)
    \/ \E p \in Procs : SearchAfterInit(p)
    \/ \E p \in Procs : ToArrayOk(p)
    \/ \E p \in Procs : ToArrayFails(p)

UpdateSpec == UpdateInit /\ [][UpdateNext]_vars

\* ------------------------------------------------ retry after a failure
\* A process whose callers await each operation before they start the
\* next one, on a backend that fails at most once: an awaited call of the
\* initializer may reject, or the embedding may be unusable, while no
\* initialization has failed yet and another operation is still to come;
\* after that the backend and embedding calls succeed.  The event loop
\* runs every continuation that is ready.
AllIdle == \A q \in Procs : pc[q] = "idle"

NextWrite(p) == AllIdle /\ CallWrite(p)

NextSearch(p) == AllIdle /\ CallSearch(p)

FirstInitFailure(p) ==
    /\ ~initFailed /\ calls < MaxCalls
    /\ InitStepFails(p)

GetEmbeddingsRetry(p) ==
    /\ GetEmbeddingsOk(p)
    /\ (initFailed \/ calls = MaxCalls) => pc'[p] = "createTable"

RetryNext ==
    \/ \E p \in Procs : NextWrite(p)
    \/ \E p \in Procs : NextSearch(p)
    \/ \E p \in Procs : ConnectOk(p)
    \/ \E p \in Procs : TableNamesOk(p)
    \/ \E p \in Procs : OpenTableOk(p)
    \/ \E p \in Procs : GetEmbeddingsRetry(p)
    \/ \E p \in Procs : CreateTableOk(p)
    \/ \E p \in Procs : FirstInitFailure(p)
    \/ \E p \in Procs : WriteAfterInit(p)
    \/ \E p \in Procs : AddOk(p)
    \/ \E p \in Procs : AddFails(p)
    \/ \E p \in Procs : SearchAfterInit(p)
    \/ \E p \in Procs : ToArrayOk(p)
    \/ \E p \in Procs : ToArrayFails(p)

RetrySpec == Init /\ [][RetryNext]_vars /\ WF_vars(RetryNext)

\* ------------------------------------------ the BigQuery query tool, 129-165
\* A text is a sequence of words, standing for the words joined by single
\* spaces; a word is a sequence of characters.
LowerLetters == <<"a", "b", "c", "d", "e", "f", "g", "h", "i", "j", "k", "l", "m", "n", "o", "p", "q", "r", "s", "t", "u", "v", "w", "x", "y", "z">>
UpperLetters == <<"A", "B", "C", "D", "E", "F", "G", "H", "I", "J", "K", "L", "M", "N", "O", "P", "Q", "R", "S", "T", "U", "V", "W", "X", "Y", "Z">>

IsLower(c) == \E i \in 1..Len(LowerLetters) : LowerLetters[i] = c

IsUpper(c) == \E i \in 1..Len(UpperLetters) : UpperLetters[i] = c

ToUpperChar(c) ==
    IF IsLower(c)
    THEN UpperLetters[CHOOSE i \in 1..Len(LowerLetters) : LowerLetters[i] = c]
    ELSE c

ToLowerChar(c) ==
    IF IsUpper(c)
    THEN LowerLetters[CHOOSE i \in 1..Len(UpperLetters) : UpperLetters[i] = c]
    ELSE c

WordToUpper(w) == [i \in 1..Len(w) |-> ToUpperChar(w[i])]

WordToLower(w) == [i \in 1..Len(w) |-> ToLowerChar(w[i])]

WordMixedCase(w) ==
    [i \in 1..Len(w) |-> IF i % 2 = 1 THEN ToUpperChar(w[i]) ELSE ToLowerChar(w[i])]

\* String.prototype.toUpperCase, lines 135 and 148
toUpperCase(text) == [j \in 1..Len(text) |-> WordToUpper(text[j])]

\* String.prototype.includes with a needle that has no space in it
WordIncludes(w, k) ==
    \E i \in 0..(Len(w) - Len(k)) : SubSeq(w, i + 1, i + Len(k)) = k

includes(text, k) == \E j \in 1..Len(text) : WordIncludes(text[j], k)

\* the literals of lines 136-140 and 148
INSERT == <<"I", "N", "S", "E", "R", "T">>
UPDATE == <<"U", "P", "D", "A", "T", "E">>
DELETE == <<"D", "E", "L", "E", "T", "E">>
CREATE == <<"C", "R", "E", "A", "T", "E">>
DROP == <<"D", "R", "O", "P">>
INFORMATION_SCHEMA == <<"I", "N", "F", "O", "R", "M", "A", "T", "I", "O", "N", "_", "S", "C", "H", "E", "M", "A">>

BlockedKeywords == {INSERT, UPDATE, DELETE, CREATE, DROP}

\* the test of lines 136-140 on upperSql
IsBlocked(upperSql) == \E k \in BlockedKeywords : includes(upperSql, k)

\* the other words of the statements a client can send
SELECT == <<"S", "E", "L", "E", "C", "T">>
TRUNCATE == <<"T", "R", "U", "N", "C", "A", "T", "E">>
ALTER == <<"A", "L", "T", "E", "R">>
TABLE == <<"T", "A", "B", "L", "E">>
FROM == <<"F", "R", "O", "M">>
TableT == <<"t">>
UpdatedAt == <<"u", "p", "d", "a", "t", "e", "d", "_", "a", "t">>
SchemaTables == <<"i", "n", "f", "o", "r", "m", "a", "t", "i", "o", "n", "_", "s", "c", "h", "e", "m", "a", ".", "t", "a", "b", "l", "e", "s">>
DatasetSchemaTables == <<"d", "s", ".", "i", "n", "f", "o", "r", "m", "a", "t", "i", "o", "n", "_", "s", "c", "h", "e", "m", "a", ".", "t", "a", "b", "l", "e", "s">>
projectId == <<"p">>

\* the statements of BigQuery that change data or schema start with one
\* of these words; a statement that starts with SELECT reads
ModifyingVerbs == {INSERT, UPDATE, DELETE, TRUNCATE, CREATE, ALTER, DROP}

TableNames == {TableT, UpdatedAt}

\* the complete modifying statements of three words: TRUNCATE TABLE name
\* removes the rows of a table, DROP TABLE name removes the table
Modifies(text) ==
    /\ Len(text) = 3
    /\ WordToUpper(text[1]) \in {TRUNCATE, DROP}
    /\ WordToUpper(text[2]) = TABLE
    /\ text[3] \in TableNames

\* the words of the sql argument: every verb in lower, upper and mixed
\* case, FROM in lower and upper case, TABLE, and four names
Cases(w) == {WordToLower(w), WordToUpper(w), WordMixedCase(w)}

Vocabulary ==
    UNION {Cases(v) : v \in ModifyingVerbs \cup {SELECT}}
       \cup {WordToLower(FROM), FROM, TABLE}
       \cup TableNames \cup {SchemaTables, DatasetSchemaTables}

SqlTexts == SeqsUpTo(Vocabulary, MaxWords)

\* qualifyTablePath, lines 39-48: the matches of
\* /FROM\s+(?:(\w+)\.)?INFORMATION_SCHEMA\.TABLES/gi are the words FROM that
\* are followed by the tables view, with or without a dataset
IsTablesView(w) == WordToUpper(w) = WordToUpper(SchemaTables)

HasDataset(w) ==
    \E i \in 1..Len(w) :
       /\ w[i] = "."
       /\ i > 1
       /\ \A j \in 1..(i - 1) : w[j] # "."
       /\ IsTablesView(SubSeq(w, i + 1, Len(w)))

Dataset(w) == SubSeq(w, 1, (CHOOSE i \in 1..Len(w) : w[i] = "." /\ \A j \in 1..(i - 1) : w[j] # ".") - 1)

PatternMatches(text) ==
    {i \in 1..(Len(text) - 1) :
        /\ WordToUpper(text[i]) = FROM
        /\ (IsTablesView(text[i + 1]) \/ HasDataset(text[i + 1]))}

\* line 46: a match without dataset
DatasetMissing(text) == \E i \in PatternMatches(text) : IsTablesView(text[i + 1])

\* line 44: the replacement of a match
Backquote == "backquote"     \* the character that quotes a table path

QualifiedTable(w) ==
    <<Backquote>> \o projectId \o <<".">> \o Dataset(w) \o <<".">>
        \o WordToUpper(SchemaTables) \o <<Backquote>>

qualifyTablePath(text) ==
    [i \in 1..Len(text) |->
        IF i \in PatternMatches(text) THEN FROM
        ELSE IF i > 1 /\ (i - 1) \in PatternMatches(text) THEN QualifiedTable(text[i])
        ELSE text[i]]

\* a step of the tool's handler: the vector store is not involved
StoreUntouched == UNCHANGED <<modvars, storevars, clock, pc, procvars, retvars, histvars>>

\* a call of a tool other than query: line 164
CallUnknownTool ==
    /\ handler = "idle"
    /\ response' = "unknownTool"
    /\ UNCHANGED <<handler, sql>>
    /\ StoreUntouched

\* a call of the query tool without sql argument: line 135 throws a
\* TypeError
CallQueryWithoutSql ==
    /\ handler = "idle"
    /\ response' = "typeError"
    /\ UNCHANGED <<handler, sql>>
    /\ StoreUntouched

\* a call of the query tool, lines 130-151: the read-only validation, the
\* qualification of INFORMATION_SCHEMA queries, the call of bigquery.query
CallQuery ==
    /\ handler = "idle"
    /\ \E text \in SqlTexts :
          LET upperSql == toUpperCase(text)
          IN IF IsBlocked(upperSql)
             THEN /\ response' = "onlyRead"
                  /\ UNCHANGED <<handler, sql>>
             ELSE IF includes(toUpperCase(text), INFORMATION_SCHEMA) /\ DatasetMissing(text)
             THEN /\ response' = "datasetMissing"
                  /\ UNCHANGED <<handler, sql>>
             ELSE /\ sql' = IF includes(toUpperCase(text), INFORMATION_SCHEMA)
                            THEN qualifyTablePath(text)
                            ELSE text
                  /\ handler' = "query"
                  /\ response' = NoResponse
    /\ StoreUntouched

\* line 151 resumes with the rows: lines 157-160
QueryOk ==
    /\ handler = "query"
    /\ handler' = "idle"
    /\ response' = "rows"
    /\ sql' = <<>>
    /\ StoreUntouched

\* line 151 rejects: lines 161-163 re-throw
QueryFails ==
    /\ handler = "query"
    /\ handler' = "idle"
    /\ response' = "queryError"
    /\ sql' = <<>>
    /\ StoreUntouched

\* the server before its first tool call; the vector store is not in use
QueryInit ==
    /\ db = Null /\ table = Null /\ isInitialized = FALSE
    /\ tableExists = FALSE /\ hasInsertCol = FALSE /\ rows = <<>>
    /\ clock = 1
    /\ Idle
    /\ calls = 0 /\ createAttempts = 0
    /\ initOk = FALSE /\ initFailed = FALSE

QueryNext ==
    \/ CallUnknownTool
    \/ CallQueryWithoutSql
    \/ CallQuery
    \/ QueryOk
    \/ QueryFails

QuerySpec == QueryInit /\ [][QueryNext]_vars

TypeOK ==
    /\ db \in {Null} \cup Procs /\ table \in {Null} \cup Procs
    /\ isInitialized \in BOOLEAN
    /\ Len(rows) <= MaxRows
    /\ clock \in Times
    /\ calls \in 0..MaxCalls
    /\ sampleEmbedding \in [Procs -> EmbeddingResults]
    /\ handler \in {"idle", "query"}
    /\ Len(sql) <= MaxWords

\* ---------------------------------------------------------------- claims
Found == returned.how = "found"

Kept == 1..Len(dedupedResults)
Fetched == 1..Len(results)

\* C1: no row a search returns is a superseded version: the table holds no
\* other row with the same id and a strictly later insert timestamp (a row
\* without insert timestamp is older than any row that has one).
NoStaleRowReturned ==
    Found => \A i \in Kept : \A j \in 1..Len(rows) :
                ~(rows[j].id = dedupedResults[i].id /\ rows[j].its > dedupedResults[i].its)

\* C2: the result of a search holds at most one row per id; for an id with
\* a fetched row that carries an insert timestamp, the returned row is a
\* fetched row whose timestamp is the maximum among the fetched rows of
\* that id, and among rows with that maximum it is the first one fetched.
DedupKeepsLatestFetched ==
    Found =>
      /\ \A i, j \in Kept : i # j => dedupedResults[i].id # dedupedResults[j].id
      /\ \A k \in Fetched : results[k].its # NoTs =>
           \E i \in Kept, f \in Fetched :
              /\ dedupedResults[i] = results[f]
              /\ results[f].id = results[k].id
              /\ results[f].its >= results[k].its
              /\ (results[f].its = results[k].its => f <= k)

\* a search fetched an older version of an id before a newer one
NewerFetchedLater ==
    /\ Found
    /\ \E k1, k2 \in Fetched :
          /\ k1 < k2 /\ results[k1].id = results[k2].id
          /\ results[k1].its # NoTs /\ results[k1].its < results[k2].its

\* C9: when the fetched rows of an id are one versioned row and one legacy
\* row, the result holds the versioned row and not the legacy row, in both
\* fetch orders; a legacy row is returned only if it was the first row of
\* its id to be fetched.
LegacyPrecedence ==
    Found =>
      /\ \A v, l \in Fetched :
           (/\ results[v].id = results[l].id
            /\ results[v].its # NoTs /\ results[l].its = NoTs
            /\ \A k \in Fetched : results[k].id = results[v].id => k \in {v, l})
           => /\ \E i \in Kept : dedupedResults[i] = results[v]
              /\ \A i \in Kept : dedupedResults[i] # results[l]
      /\ \A i \in Kept : dedupedResults[i].its = NoTs =>
           \A k \in Fetched : results[k].id = dedupedResults[i].id =>
              \E f \in 1..k : results[f] = dedupedResults[i]

\* a search fetched the versioned row of an id first and its legacy row after
LegacyFetchedAfterVersioned ==
    /\ Found
    /\ \E v, l \in Fetched :
          /\ v < l /\ results[v].id = results[l].id
          /\ results[v].its # NoTs /\ results[l].its = NoTs

\* C10: a successful search returns as many rows as there are distinct ids
\* among the fetched rows; the fetched rows are at most topN, so the result
\* is at most topN rows and shorter than the window when ids collide.
ResultCountsDistinctIds ==
    Found =>
      /\ Len(dedupedResults) = Cardinality({results[k].id : k \in Fetched})
      /\ Len(results) <= returned.topN
      /\ Len(dedupedResults) <= returned.topN

\* two fetched rows collapsed into one returned row
WindowCollapsed ==
    Found /\ Len(results) = 2 /\ Len(dedupedResults) = 1 /\ returned.topN = 2

\* C11: the rows a successful search returns are the rows the
\* de-duplication kept, no other and none twice, in an order of
\* non-increasing score where a missing score counts as zero, whatever the
\* order the engine returned the candidates in.
SortedByScoreAfterDedup ==
    LET kept == latestByIdMap(results)
        sc(r) == IF r.score = NoScore THEN 0 ELSE r.score
    IN Found =>
         /\ Len(dedupedResults) = Len(kept)
         /\ {dedupedResults[i] : i \in Kept} = {kept[i] : i \in 1..Len(kept)}
         /\ \A i, j \in Kept : i < j => sc(dedupedResults[i]) >= sc(dedupedResults[j])

\* a search fetched a row with a negative score before a row of another id
\* without score, and returned them in the other order
MissingScoreAboveNegative ==
    /\ Found /\ Len(results) = 2 /\ Len(dedupedResults) = 2
    /\ results[1].score < 0 /\ results[1].score # NoScore
    /\ results[2].score = NoScore
    /\ dedupedResults = <<results[2], results[1]>>

\* C12: the embedding function is consulted only by an initializer that
\* found no table (one that found the table goes on to open it); when its
\* call returns, createTable is invoked only with a vector of known,
\* non-zero dimension: with an absent or zero-length vector the invocation
\* throws to its caller, has made no createTable call, leaves the store's
\* tables and rows as they were and the module state not ready.
EmbeddingUnavailableStep ==
    \A p \in Procs :
       /\ (pc[p] # "getEmbeddings" /\ pc'[p] = "getEmbeddings")
             => (pc[p] = "tableNames" /\ ~tableExists)
       /\ (pc[p] = "tableNames" /\ tableExists /\ pc'[p] # "tableNames")
             => pc'[p] \in {"openTable", "idle"}
       /\ (pc[p] = "getEmbeddings" /\ pc'[p] # "getEmbeddings") =>
             \/ /\ pc'[p] = "createTable"
                /\ sampleEmbedding'[p] \notin {NoEmbedding, 0}
             \/ /\ pc'[p] = "idle"
                /\ returned'.how = "threw"
                /\ createAttempts' = createAttempts
                /\ UNCHANGED storevars
                /\ isInitialized' = FALSE /\ db' = Null /\ table' = Null

EmbeddingUnavailableFails == [][EmbeddingUnavailableStep]_vars

\* an initialization has just failed on a zero-length sample embedding:
\* there is no table and createTable was never called
ZeroLengthEmbeddingThrown ==
    /\ returned.how = "threw" /\ returned.at = "getEmbeddings"
    /\ returned.sampleEmbedding = 0
    /\ ~tableExists /\ createAttempts = 0 /\ ~isInitialized

\* C13: when no fetched row of an id carries an insert timestamp, the
\* result holds exactly one row of that id, and it is the one fetched
\* first, whatever the scores.
LegacyOnlyKeepsFirst ==
    Found =>
      \A k \in Fetched :
         LET same == {f \in Fetched : results[f].id = results[k].id}
         IN (\A f \in same : results[f].its = NoTs) =>
               /\ Cardinality({i \in Kept : dedupedResults[i].id = results[k].id}) = 1
               /\ \E i \in Kept : \E f \in same :
                     /\ dedupedResults[i] = results[f]
                     /\ \A g \in same : f <= g

\* a search fetched two legacy rows of one id, the second with the higher
\* score, and returned the first
SecondLegacyRowDropped ==
    /\ Found /\ Len(results) = 2
    /\ results[1].id = results[2].id
    /\ results[1].its = NoTs /\ results[2].its = NoTs
    /\ results[1].score = NoScore /\ results[2].score = 1
    /\ dedupedResults = <<results[1]>>

\* C14: once isInitialized is true it stays true, and no step clears or
\* replaces db or table afterwards.
HandlesCachedStep ==
    isInitialized => (isInitialized' /\ db' = db /\ table' = table)

HandlesCachedForever == [][HandlesCachedStep]_vars

\* C15: of two rows of one id appended by successive writes, the later
\* one carries the strictly later insert timestamp, and a search that
\* fetched both returns the later one and not the earlier one.
UpdateSupersedes ==
    /\ \A i, j \in 1..Len(rows) :
          (i < j /\ rows[i].id = rows[j].id /\ rows[i].its # NoTs /\ rows[j].its # NoTs)
             => rows[i].its < rows[j].its
    /\ Found =>
          \A f, g \in Fetched :
             (/\ results[f].id = results[g].id /\ results[f].idx < results[g].idx
              /\ results[f].its # NoTs /\ results[g].its # NoTs)
             => \A i \in Kept : dedupedResults[i] # results[f]

Placeholders(rs) == {i \in 1..Len(rs) : rs[i].id = DummyId}

\* C16: the step that creates the table leaves it with the placeholder row
\* and nothing else, and no later step of any invocation removes that row
\* or adds another placeholder, so a table the initializer created holds
\* exactly one placeholder row ever after.
PlaceholderStep ==
    /\ (~tableExists /\ tableExists') =>
          (rows' = dummyData /\ Cardinality(Placeholders(rows')) = 1)
    /\ tableExists =>
          (tableExists' /\ Placeholders(rows') = Placeholders(rows))

StorageFailureStep ==
    /\ \A p \in Procs :
          (pc[p] \in {"add", "toArray"} /\ pc'[p] = "idle"
             /\ returned'.how \notin {"added", "found"})
          => /\ returned'.how = IF pc[p] = "add" THEN "addError" ELSE "searchError"
             /\ returned'.at = pc[p]
             /\ dedupedResults' = <<>>
             /\ UNCHANGED <<modvars, storevars>>
    /\ \A p \in Procs :
          (pc[p] = "idle" /\ pc'[p] # "idle" /\ isInitialized)
          => pc'[p] = "initReturn"

StorageFailuresBenign == [][StorageFailureStep]_vars

\* the query of a search on an initialized store has just been rejected
QueryFailureSwallowed ==
    /\ returned.op = "search" /\ returned.how = "searchError"
    /\ dedupedResults = <<>>
    /\ isInitialized /\ db # Null /\ table # Null

\* C18: a failed initialization is not latched: when an initialization
\* has failed and the backend and embedding calls succeed from then on,
\* the next operation runs the initializer again from connect and the
\* store becomes initialized, with a table handle.
RetryInitializes ==
    initFailed ~> (isInitialized /\ table # Null /\ db # Null)

\* an operation has completed an initialization after an earlier one failed
InitializedAfterFailure ==
    /\ initFailed /\ isInitialized /\ table # Null
    /\ \E p \in Procs : pc[p] = "initReturn"

\* a step of a write that was called with an empty items sequence
EmptyWriteSteps(p) == op[p] = "write" /\ items[p] = <<>> /\ pc'[p] # pc[p]

\* C19 as stated: no step of a write called with empty items appends or
\* changes the tables and rows of the store, whatever state the store and
\* the module are in when it is called.
EmptyWriteStep ==
    \A p \in Procs : EmptyWriteSteps(p) => (pc'[p] # "add" /\ UNCHANGED storevars)

EmptyWriteIsNoOp == [][EmptyWriteStep]_vars

\* C19 as amended: a write called with empty items never appends and
\* changes no table that exists; on a store without the table its
\* initializer call may create the table, with the placeholder row; once
\* that call has returned the write returns normally.
EmptyWriteInitStep ==
    \A p \in Procs : EmptyWriteSteps(p) =>
       /\ pc'[p] # "add"
       /\ tableExists => UNCHANGED storevars
       /\ ~tableExists =>
             \/ UNCHANGED storevars
             \/ pc[p] = "createTable" /\ tableExists' /\ rows' = dummyData
       /\ pc[p] = "initReturn" => returned'.how \in {"noTable", "noItems"}

EmptyWriteOnlyInitializes == [][EmptyWriteInitStep]_vars

\* the first operation of a process, a write with empty items on a store
\* without table, has returned on line 279 and left the table it created
EmptyWriteCreatedTable ==
    /\ returned.op = "write" /\ returned.items = <<>> /\ returned.how = "noItems"
    /\ calls = 1 /\ createAttempts = 1
    /\ tableExists /\ rows = dummyData

\* C20: in every reachable state, under every interleaving of the
\* invocations, isInitialized = true implies that db and table are both
\* set.
InitializedImpliesHandles ==
    isInitialized => (db # Null /\ table # Null)

\* C21: the records a write hands to table.add have exactly the columns
\* of the table, when the table is one this process's initializer created
\* (a createTable call was made, so there was no table before).
AppendedColumnsMatchSchema ==
    \A p \in Procs :
       (pc[p] = "add" /\ tableExists /\ createAttempts > 0)
          => TimestampedColumns = SchemaColumns

\* C22: no statement that modifies data or schema is ever passed to
\* bigquery.query by the query tool.
OnlyReadsReachBackend ==
    handler = "query" => ~Modifies(sql)

\* no text that contains INSERT, UPDATE, DELETE, CREATE or DROP, in lower,
\* upper or mixed case, is passed to bigquery.query
BlockedKeywordsNeverSent ==
    handler = "query" =>
       \A k \in BlockedKeywords : \A c \in Cases(k) : ~includes(sql, c)

\* C3: initializer invocations that overlap (none of them a retry after a
\* failure) make one table-creation attempt between them.
OneCreateTableAttempt ==
    ~initFailed => createAttempts <= 1

\* C4: an invocation that starts after an initialization has completed
\* returns from the initializer at once: it is never found awaiting
\* connect, tableNames, openTable, getEmbeddings or createTable.
LateCallsSkipInit ==
    \A p \in Procs : late[p] => pc[p] \notin InitAwaits

\* C5: an invocation whose initialization failed has the error raised to
\* its caller and leaves isInitialized = false, db = null, table = null.
InitFailureResets ==
    (returned.how = "threw" /\ returned.at \in InitAwaits)
       => (isInitialized = FALSE /\ db = Null /\ table = Null)

\* an initialization failed after another invocation had completed one
InitFailedAfterSuccess ==
    returned.how = "threw" /\ returned.at \in InitAwaits /\ initOk

\* C6 as stated: addOrUpdateMemoryItems never raises to its caller.
WriterNeverRaises ==
    returned.op = "write" => returned.how # "threw"

\* C6 as amended: addOrUpdateMemoryItems raises to its caller only the
\* error of its own initializer call; once that call has returned, the
\* write completes normally, whatever the append does.
WriterRaisesOnlyInitErrors ==
    returned.op = "write" =>
       /\ returned.how = "threw" => returned.at \in InitAwaits
       /\ returned.at \in {"initReturn", "add"} =>
             returned.how \in {"noTable", "noItems", "added", "addError"}

\* a write whose append was rejected has returned
AppendFailureSwallowed ==
    returned.op = "write" /\ returned.how = "addError"

EmptyQuery == returned.op = "search" /\ returned.queryEmbedding = "empty"

NoQueryForEmptyEmbedding ==
    \A p \in Procs : pc[p] = "toArray" => queryEmbedding[p] = "vector"

\* C7 as stated: a search with an empty queryEmbedding returns an empty
\* sequence without throwing, in every store state, and issues no query.
EmptyQueryNeverThrows ==
    /\ EmptyQuery => (returned.how # "threw" /\ dedupedResults = <<>>)
    /\ NoQueryForEmptyEmbedding

\* C7 as amended: a search with an empty queryEmbedding issues no query in
\* any store state; it throws only the error of its own initializer call,
\* and once that call has returned it returns an empty sequence.
EmptyQueryDegrades ==
    /\ EmptyQuery =>
         /\ returned.how = "threw" => returned.at \in InitAwaits
         /\ returned.at = "initReturn" =>
               (returned.how \in {"noTable", "emptyQuery"} /\ dedupedResults = <<>>)
         /\ returned.at \in InitAwaits \cup {"initReturn"}
    /\ NoQueryForEmptyEmbedding

\* a search with an empty queryEmbedding returned on line 344
EmptyQueryReturned ==
    EmptyQuery /\ returned.how = "emptyQuery"

\* C8: no step removes or changes a stored row, and a write that succeeds
\* with k items makes the table k rows longer.
AppendOnlyStep ==
    /\ Len(rows') >= Len(rows)
    /\ \A i \in 1..Len(rows) : rows'[i] = rows[i]
    /\ returned'.how = "added" => Len(rows') = Len(rows) + Len(returned'.items)

====
